---- MODULE Spec2Model ----
(***************************************************************************)
(* A model of pybug's TriMesh (pybug/spatialdata/mesh/__init__.py) and of  *)
(* Transform.apply (pybug/transform/base.py).                              *)
(*                                                                         *)
(* A numpy array of points or triangles is a function on 0..n-1 (numpy's   *)
(* own index space); a field array is a record [shape, rows] so that the   *)
(* shape tests of attach_texture are tests on a real shape tuple.          *)
(***************************************************************************)
EXTENDS Integers, Sequences, FiniteSets, TLC

VARIABLES points, trilist, pointfields, trifields, texture, cls, call, tcall

vars == <<points, trilist, pointfields, trifields, texture, cls, call, tcall>>

(* ---------------------------- bounds ----------------------------------- *)
MaxPoints == 3
MaxTris == 2
MaxArrayLen == 2

(* ------------------------- numpy primitives ---------------------------- *)
None == "None"

Range(f) == {f[i] : i \in DOMAIN f}

\* len(a) of an array held as a function on 0..n-1
Len0(a) == Cardinality(DOMAIN a)

\* the k-th smallest element (k from 0) of a finite set of integers
Nth(S, k) == CHOOSE x \in S : Cardinality({y \in S : y < x}) = k

\* np.arange(n)
arange(n) == [i \in 0..(n - 1) |-> i]

\* a[mask] for a boolean mask: the rows whose mask entry is True, in order
BoolIndex(a, mask) ==
  LET sel == {i \in DOMAIN a : mask[i]}
  IN  [k \in 0..(Cardinality(sel) - 1) |-> a[Nth(sel, k)]]

\* a[idx] for an integer index array idx
FancyIndex(a, idx) == [k \in DOMAIN idx |-> a[idx[k]]]

\* np.in1d(trilist, kept).reshape(trilist.shape)
in1d(tl, kept) == [t \in DOMAIN tl |-> [j \in 1..3 |-> tl[t][j] \in Range(kept)]]

\* np.any(m, axis=1): the mask a slip for np.all would compute
any_axis1(m) == [t \in DOMAIN m |-> \E j \in 1..3 : m[t][j]]

\* np.all(m, axis=1)
all_axis1(m) == [t \in DOMAIN m |-> \A j \in 1..3 : m[t][j]]

\* the flattened values in first-occurrence order minus the sort: the kept
\* set listed from the largest index down
unique_desc(tl) ==
  LET vals == UNION {Range(tl[t]) : t \in DOMAIN tl}
      n == Cardinality(vals)
  IN  [k \in 0..(n - 1) |-> Nth(vals, n - 1 - k)]

\* np.unique(a): the sorted distinct values of the flattened array
unique(tl) ==
  LET vals == UNION {Range(tl[t]) : t \in DOMAIN tl}
  IN  [k \in 0..(Cardinality(vals) - 1) |-> Nth(vals, k)]

\* pi_map left as the identity on the old index space
pi_map_identity(n, kept_orig, kept_new) == [p \in 0..(n - 1) |-> p]

\* the new indices counted from 1 instead of 0
pi_map_one_based(n, kept_orig, kept_new) ==
  [p \in 0..(n - 1) |->
     IF \E k \in DOMAIN kept_orig : kept_orig[k] = p
     THEN kept_new[CHOOSE k \in DOMAIN kept_orig : kept_orig[k] = p] + 1
     ELSE 0]

\* pi_map = np.zeros(n); pi_map[kept_orig] = kept_new
pi_map_of(n, kept_orig, kept_new) ==
  [p \in 0..(n - 1) |->
     IF \E k \in DOMAIN kept_orig : kept_orig[k] = p
     THEN kept_new[CHOOSE k \in DOMAIN kept_orig : kept_orig[k] = p]
     ELSE 0]

\* .astype(np.uint32) of a float64 entry of pi_map.  pi_map holds 0.0 and the
\* new indices 0..n'-1 only, whole numbers far below 2^32 that the
\* conversion keeps; a negative entry would wrap, and pi_map has none
astype_uint32(v) == IF v >= 0 THEN v ELSE v + 2147483647

(* ------------------------------ fields --------------------------------- *)
\* field.shape[0]
Leading(field) == field.shape[1]

\* field[mask] / field[idx] on a field array: the leading axis is re-sliced,
\* the trailing shape is kept
FieldBoolIndex(field, mask) ==
  LET r == BoolIndex(field.rows, mask)
  IN  [shape |-> <<Len0(r)>> \o Tail(field.shape), rows |-> r]

FieldFancyIndex(field, idx) ==
  LET r == FancyIndex(field.rows, idx)
  IN  [shape |-> <<Len0(r)>> \o Tail(field.shape), rows |-> r]

\* tcoords[tcoords_trilist]: every index of the (K,3) index array is replaced
\* by the row of tcoords it names
GatherTcoords(tcoords, tcoords_trilist) ==
  [shape |-> <<Len0(tcoords_trilist), 3>> \o Tail(tcoords.shape),
   rows  |-> [k \in DOMAIN tcoords_trilist |->
                [j \in 1..3 |-> tcoords.rows[tcoords_trilist[k][j]]]]]

\* d[name] = field on a dict
DictSet(d, name, field) ==
  [n \in (DOMAIN d) \cup {name} |-> IF n = name THEN field ELSE d[n]]

EmptyDict == [n \in {} |-> None]

n_points == Len0(points)
n_tris == Len0(trilist)


\* an optional argument: << >> is None, <<v>> is the value v
NoArg == << >>
Some(v) == <<v>>

\* the receiver as one value
Self ==
  [points |-> points, trilist |-> trilist, pointfields |-> pointfields,
   trifields |-> trifields, texture |-> texture, cls |-> cls]

(* ------------------------------ inputs --------------------------------- *)
\* the point array of an n-point cloud: n distinct 3-vectors, listed so that
\* the order of the values is not the order of the indices
PointArray(n) == [i \in 0..(n - 1) |-> <<(n - 1) - i, i % 2, 0>>]

\* candidate triangles over n points, in a fixed order: at even places the
\* degenerate triangles on an edge, at odd places a strip of triangles whose
\* corners are not listed in index order
StripAt(q) ==
  IF q % 2 = 0 THEN <<q \div 2, q \div 2, (q \div 2) + 1>>
  ELSE <<(q \div 2) + 2, q \div 2, (q \div 2) + 1>>

\* the triangle lists over n points: at most MaxTris of the candidates, in
\* the order of the candidates
TriLists(n) ==
  {[k \in 0..(Cardinality(P) - 1) |-> StripAt(Nth(P, k))] :
     P \in {Q \in SUBSET (0..(2 * n - 4)) : Cardinality(Q) <= MaxTris}}

\* one row of a field whose trailing shape is rest, made from the number v
Row(rest, v) ==
  IF rest = <<2>> THEN <<v, v + 1>>
  ELSE IF rest = <<3>> THEN <<v, v, v + 1>>
  ELSE <<<<v, 0>>, <<v, 1>>, <<v, 2>>>>

\* an array of shape (n,) + rest with pairwise different rows
MkField(n, rest) ==
  [shape |-> <<n>> \o rest, rows |-> [i \in 0..(n - 1) |-> Row(rest, 10 + i)]]

\* a (k,3) index array into an m-row coordinate array
MkIndex(k, m) == [t \in 0..(k - 1) |-> <<t % m, (t + 1) % m, (t + 2) % m>>]

\* field arguments of add_pointfield / add_trifield for an owner count n:
\* one row per owner, and one row too many
FieldInputs(n) == {MkField(k, <<3>>) : k \in {n, n + 1}}

\* (tcoords, tcoords_trilist) arguments of attach_texture: per point, per
\* triangle corner, a shape that is neither, and per point coordinates with
\* an index of one row per triangle or of one row too many
TextureInputs ==
  {<<MkField(n_points, <<2>>), NoArg>>,
   <<MkField(n_tris, <<3, 2>>), NoArg>>,
   <<MkField(n_points + 1, <<2>>), NoArg>>} \cup
  {<<MkField(n_points, <<2>>), Some(MkIndex(k, n_points))>> :
     k \in {j \in {n_tris, n_tris + 1} : n_points > 0 \/ j = 0}}

(* --------------------------- TriMesh.__init__ --------------------------- *)
InitMesh ==
  /\ \E n \in 0..MaxPoints :
       /\ points = PointArray(n)
       /\ trilist \in TriLists(n)
  /\ pointfields = EmptyDict
  /\ trifields = EmptyDict
  /\ texture = None
  /\ cls = "TriMesh"
  /\ call = [op |-> "__init__", raised |-> None]

(* ----------------------- add_pointfield / add_trifield ------------------ *)
\* PointCloud3d.add_pointfield's test of the leading dimension
PointFieldMismatch(field, n) == Leading(field) # n

\* add_trifield with the test left out: every array is accepted
TriFieldMismatchNever(field, t) == FALSE

\* field.shape[0] != self.n_tris
TriFieldMismatch(field, t) == Leading(field) # t

\* PointCloud3d.add_pointfield on the table pf of a cloud of n points
AddPointField(pf, n, name, field) ==
  IF PointFieldMismatch(field, n)
  THEN [raised |-> "FieldError", fields |-> pf]
  ELSE [raised |-> None, fields |-> DictSet(pf, name, field)]

\* TriMesh.add_trifield on the table tf of a mesh of t triangles
AddTriField(tf, t, name, field) ==
  IF TriFieldMismatch(field, t)
  THEN [raised |-> "TriFieldError", fields |-> tf]
  ELSE [raised |-> None, fields |-> DictSet(tf, name, field)]

add_pointfield(name, field) ==
  \E r \in {AddPointField(pointfields, n_points, name, field)} :
      /\ pointfields' = r.fields
      /\ call' = [op |-> "add_pointfield", name |-> name, field |-> field,
                  raised |-> r.raised]
      /\ UNCHANGED <<points, trilist, trifields, texture, cls, tcall>>

add_trifield(name, field) ==
  \E r \in {AddTriField(trifields, n_tris, name, field)} :
      /\ trifields' = r.fields
      /\ call' = [op |-> "add_trifield", name |-> name, field |-> field,
                  raised |-> r.raised]
      /\ UNCHANGED <<points, trilist, pointfields, texture, cls, tcall>>

(* ----------------------------- attach_texture --------------------------- *)
\* the if / elif / elif / else chain of attach_texture
TcoordsBranch(tcoords, tcoords_trilist, n, t) ==
  IF tcoords_trilist # NoArg THEN "indexed"
  ELSE IF tcoords.shape = <<n, 2>> THEN "per_point"
  ELSE IF tcoords.shape = <<t, 3, 2>> THEN "per_tri"
  ELSE "unknown"

\* raise TextureError(...): the module neither defines nor imports the name
\* TextureError, so evaluating the raise statement raises NameError
RaiseTextureError == "NameError"

attach_texture(tex, tcoords, tcoords_trilist) ==
  LET b == TcoordsBranch(tcoords, tcoords_trilist, n_points, n_tris)
      rp == AddPointField(pointfields, n_points, "tcoords", tcoords)
      rt == AddTriField(trifields, n_tris, "tcoords",
                        IF b = "indexed"
                        THEN GatherTcoords(tcoords, tcoords_trilist[1])
                        ELSE tcoords)
  IN  /\ texture' = tex
      /\ pointfields' = IF b = "per_point" THEN rp.fields ELSE pointfields
      /\ trifields' = IF b \in {"indexed", "per_tri"} THEN rt.fields
                      ELSE trifields
      /\ call' = [op |-> "attach_texture", texture |-> tex,
                  tcoords |-> tcoords, tcoords_trilist |-> tcoords_trilist,
                  raised |-> CASE b = "per_point" -> rp.raised
                               [] b \in {"indexed", "per_tri"} -> rt.raised
                               [] OTHER -> RaiseTextureError]
      /\ UNCHANGED <<points, trilist, cls, tcall>>

(* ------------------------- trimesh_from_pointmask ----------------------- *)
\* issubclass(astype, TriMesh) over the classes of the module
IsTriMeshSubclass(c) == c \in {"TriMesh", "FastTriMesh"}

\* the point fields gathered by the new index of the kept points,
\* field[kept_points_new_index], instead of by their original index
SlicePointFieldNewIndex(field, kept_points_orig_index) ==
  FieldFancyIndex(field, arange(Len0(kept_points_orig_index)))

\* field[kept_points_orig_index]
SlicePointField(field, kept_points_orig_index) ==
  FieldFancyIndex(field, kept_points_orig_index)

\* field[tris_mask]
SliceTriField(field, tris_mask) == FieldBoolIndex(field, tris_mask)

\* the body of trimesh_from_pointmask on the mesh self: what it raises, and
\* the mesh it returns
Extract(self, pointmask, astype) ==
  LET n == Len0(self.points)
      orig_point_index == arange(n)
      selected == BoolIndex(orig_point_index, pointmask)
      trilist_mask == in1d(self.trilist, selected)
      tris_mask == all_axis1(trilist_mask)
      kept_tris_orig_index == BoolIndex(self.trilist, tris_mask)
      kept_points_orig_index == unique(kept_tris_orig_index)
      new_points == FancyIndex(self.points, kept_points_orig_index)
      kept_points_new_index == arange(Len0(kept_points_orig_index))
      pi_map == pi_map_of(n, kept_points_orig_index, kept_points_new_index)
      new_trilist ==
        [t \in DOMAIN kept_tris_orig_index |->
           [j \in 1..3 |-> astype_uint32(pi_map[kept_tris_orig_index[t][j]])]]
      trimeshcls == IF astype = "self" THEN self.cls ELSE astype
      pf == [m \in DOMAIN self.pointfields |->
               SlicePointField(self.pointfields[m], kept_points_orig_index)]
      tf == [m \in DOMAIN self.trifields |->
               SliceTriField(self.trifields[m], tris_mask)]
  IN  IF astype # "self" /\ ~IsTriMeshSubclass(astype)
      THEN [raised |-> "Exception", mesh |-> self]
      ELSE IF \E m \in DOMAIN pf : PointFieldMismatch(pf[m], Len0(new_points))
      THEN [raised |-> "FieldError", mesh |-> self]
      ELSE IF \E m \in DOMAIN tf : TriFieldMismatch(tf[m], Len0(new_trilist))
      THEN [raised |-> "TriFieldError", mesh |-> self]
      ELSE [raised |-> None,
            mesh |-> [points |-> new_points, trilist |-> new_trilist,
                      pointfields |-> pf, trifields |-> tf,
                      texture |-> self.texture, cls |-> trimeshcls]]

\* the caller goes on with the mesh returned
trimesh_from_pointmask(pointmask, astype) ==
  \E r \in {Extract(Self, pointmask, astype)} :
      /\ points' = r.mesh.points
      /\ trilist' = r.mesh.trilist
      /\ pointfields' = r.mesh.pointfields
      /\ trifields' = r.mesh.trifields
      /\ texture' = r.mesh.texture
      /\ cls' = r.mesh.cls
      /\ call' = [op |-> "trimesh_from_pointmask", pointmask |-> pointmask,
                  astype |-> astype, raised |-> r.raised]
      /\ UNCHANGED tcall

(* --------------------------- Transform.apply ---------------------------- *)
\* the core mapping self._apply(x_, **kwargs) of a transform family, kept as
\* the term it computes: different arguments give different results, and no
\* result is its own argument
_apply(x_, kwargs) == [fn |-> "_apply", arg |-> x_, kwargs |-> kwargs]

\* the local closure transform(x_) built by apply
transform(x_, kwargs) == _apply(x_, kwargs)

\* raw arrays of at most MaxArrayLen numbers
Arrays == UNION {[1..k -> 0..2] : k \in 0..MaxArrayLen}

\* a numpy array as a target: an object without a _transform attribute
RawArray(a) == [kind |-> "array", data |-> a]

\* what the _transform method of a Transformable does with the closure it is
\* handed (the method is abstract here; its bodies live in the subclasses):
\*   "return"  calls the closure on its own array and returns the new object
\*   "inplace" calls the closure, keeps the result, returns None
\*   "twice"   calls the closure on its array and on the result
\*   "ignore"  never calls the closure
\*   "attribute_error"  calls the closure, then trips over a missing
\*                      attribute of its own: AttributeError
\*   "value_error"      raises ValueError before calling the closure
Behaviours ==
  {"return", "inplace", "twice", "ignore", "attribute_error", "value_error"}

\* the targets handed to apply: raw arrays, which have no _transform, and
\* Transformable objects holding an array
Targets ==
  {RawArray(a) : a \in Arrays} \cup
  {[kind |-> "transformable", data |-> a, behaviour |-> b] :
     a \in Arrays, b \in Behaviours}

\* hasattr(x, '_transform')
HasTransform(x) == x.kind = "transformable"

\* one run of x._transform(transform): the arguments the closure was called
\* with, in order, what the method returned, and what it raised
RunTransform(x, kwargs) ==
  LET once == transform(RawArray(x.data), kwargs)
  IN  CASE x.behaviour = "return" ->
             [closure_args |-> <<RawArray(x.data)>>, raised |-> None,
              returned |-> Some([x EXCEPT !.data = once])]
        [] x.behaviour = "inplace" ->
             [closure_args |-> <<RawArray(x.data)>>, raised |-> None,
              returned |-> NoArg]
        [] x.behaviour = "twice" ->
             [closure_args |-> <<RawArray(x.data), once>>, raised |-> None,
              returned |-> Some([x EXCEPT !.data = transform(once, kwargs)])]
        [] x.behaviour = "ignore" ->
             [closure_args |-> << >>, raised |-> None, returned |-> Some(x)]
        [] x.behaviour = "attribute_error" ->
             [closure_args |-> <<RawArray(x.data)>>, raised |-> "AttributeError",
              returned |-> NoArg]
        [] OTHER ->
             [closure_args |-> << >>, raised |-> "ValueError",
              returned |-> NoArg]

\* Transform.apply(x, **kwargs).  The record kept of the call: the arguments
\* _apply was called with, in order (apply_args), how often x._transform was
\* invoked, what it returned, and what apply returned (ret: << >> is None)
\* or raised
Apply(x, kwargs) ==
  IF ~HasTransform(x)
  THEN \* x._transform raises AttributeError; the handler applies _apply to x
       [x |-> x, kwargs |-> kwargs, transform_calls |-> 0,
        apply_args |-> <<x>>, x_returned |-> NoArg,
        ret |-> Some(_apply(x, kwargs)), raised |-> None]
  ELSE LET t == RunTransform(x, kwargs)
       IN  IF t.raised = "AttributeError"
           THEN \* except AttributeError: return self._apply(x, **kwargs)
                [x |-> x, kwargs |-> kwargs, transform_calls |-> 1,
                 apply_args |-> t.closure_args \o <<x>>,
                 x_returned |-> NoArg,
                 ret |-> Some(_apply(x, kwargs)), raised |-> None]
           ELSE IF t.raised # None
           THEN [x |-> x, kwargs |-> kwargs, transform_calls |-> 1,
                 apply_args |-> t.closure_args, x_returned |-> NoArg,
                 ret |-> NoArg, raised |-> t.raised]
           ELSE \* the try body is an expression statement: nothing is
                \* returned, and apply falls off its end
                [x |-> x, kwargs |-> kwargs, transform_calls |-> 1,
                 apply_args |-> t.closure_args, x_returned |-> t.returned,
                 ret |-> NoArg, raised |-> None]

apply(x, kwargs) ==
  /\ tcall' = Some(Apply(x, kwargs))
  /\ UNCHANGED <<points, trilist, pointfields, trifields, texture, cls, call>>

InitApply ==
  /\ points = PointArray(0)
  /\ trilist = << >>
  /\ pointfields = EmptyDict
  /\ trifields = EmptyDict
  /\ texture = None
  /\ cls = "TriMesh"
  /\ call = [op |-> "__init__", raised |-> None]
  /\ tcall = NoArg

NextApply ==
  \E x \in Targets, kwargs \in {[order |-> 0], [order |-> 1]} : apply(x, kwargs)

SpecApply == InitApply /\ [][NextApply]_vars

(* ------------------------------ the mesh -------------------------------- *)
Init ==
  /\ InitMesh
  /\ tcall = NoArg

\* (pointmask, astype) arguments: every mask with the default astype, and
\* the two explicit classes with the mask that keeps every point
ExtractInputs ==
  {<<pointmask, "self">> : pointmask \in [0..(n_points - 1) -> BOOLEAN]} \cup
  {<<[i \in 0..(n_points - 1) |-> TRUE], astype>> :
     astype \in {"FastTriMesh", "PolyMesh"}}

Next ==
  \/ \E field \in FieldInputs(n_points) : add_pointfield("color", field)
  \/ \E field \in FieldInputs(n_tris) : add_trifield("color", field)
  \/ \E a \in TextureInputs : attach_texture("texture", a[1], a[2])
  \/ \E a \in ExtractInputs : trimesh_from_pointmask(a[1], a[2])

Spec == Init /\ [][Next]_vars

(* ======================== properties of the mesh ======================== *)
\* the points a mask selects, the triangles all of whose corners it selects,
\* and the points those triangles use
SelectedBy(mask) == {i \in DOMAIN mask : mask[i]}
SurvivingTris(tl, mask) ==
  {t \in DOMAIN tl : \A j \in 1..3 : tl[t][j] \in SelectedBy(mask)}
UsedPoints(tl, mask) ==
  {tl[t][j] : t \in SurvivingTris(tl, mask), j \in 1..3}

\* the k-th (from 0) element of a set of numbers in increasing order
KthOf(S, k) == CHOOSE x \in S : Cardinality({y \in S : y < x}) = k

\* the last call was an extraction that returned the mesh now held
Extracted == call.op = "trimesh_from_pointmask" /\ call.raised = None

\* C1: every triangle of a mesh returned by trimesh_from_pointmask has all
\* three indices in [0, N'), N' the number of points of the returned mesh.
C1_NoDanglingIndex ==
  Extracted =>
    \A t \in DOMAIN trilist : \A j \in 1..3 :
      trilist[t][j] \in 0..(n_points - 1)

\* reached: an extraction that dropped a point and kept a triangle, so that
\* the kept triangle had to be renumbered or checked against a smaller N'
C1_Witness ==
  /\ Extracted
  /\ n_tris > 0
  /\ n_points < Len0(call.pointmask)

\* C2: for every mask (and a mesh class for astype) the extraction raises
\* nothing; a triangle survives iff all three corners are selected; the
\* points returned are exactly the source points some surviving triangle
\* uses; with no surviving triangle the result has 0 points and 0 triangles.
C2_Step ==
  (call'.op = "trimesh_from_pointmask" /\ call'.astype # "PolyMesh") =>
    LET mask == call'.pointmask
        surv == SurvivingTris(trilist, mask)
        used == UsedPoints(trilist, mask)
    IN  /\ call'.raised = None
        /\ Len0(trilist') = Cardinality(surv)
        /\ Len0(points') = Cardinality(used)
        /\ Range(points') = {points[p] : p \in used}
        /\ (SelectedBy(mask) = {} \/ surv = {}) =>
             (Len0(points') = 0 /\ Len0(trilist') = 0)

C2_ExactlyUsedPoints == [][C2_Step]_vars

\* reached: the mask selected more points than came back (a selected point
\* used by no surviving triangle was pruned) and yet some points came back
C2_Witness ==
  /\ Extracted
  /\ n_points > 0
  /\ Cardinality(SelectedBy(call.pointmask)) > n_points

\* every stored field has one row per owner
FieldInvariant ==
  /\ \A m \in DOMAIN pointfields : Leading(pointfields[m]) = n_points
  /\ \A m \in DOMAIN pointfields :
       Len0(pointfields[m].rows) = Leading(pointfields[m])
  /\ \A m \in DOMAIN trifields : Leading(trifields[m]) = n_tris
  /\ \A m \in DOMAIN trifields :
       Len0(trifields[m].rows) = Leading(trifields[m])

IsFieldError(e) == e \in {"FieldError", "TriFieldError"}

\* C3: in every mesh constructed or returned, after any sequence of calls,
\* every point field has leading dimension n_points and every triangle field
\* has leading dimension n_tris; an add of an array with the wrong leading
\* dimension raises the field error and leaves the table as it was.
C3_Step ==
  /\ FieldInvariant'
  /\ (call'.op = "add_pointfield" /\ Leading(call'.field) # n_points) =>
       (IsFieldError(call'.raised) /\ pointfields' = pointfields)
  /\ (call'.op = "add_trifield" /\ Leading(call'.field) # n_tris) =>
       (IsFieldError(call'.raised) /\ trifields' = trifields)

C3_FieldDimensions == FieldInvariant /\ [][C3_Step]_vars

\* reached: an add_trifield with one row too many was refused on a mesh that
\* has triangles and already holds a triangle field
C3_Witness ==
  /\ call.op = "add_trifield"
  /\ call.raised = "TriFieldError"
  /\ Leading(call.field) = n_tris + 1
  /\ n_tris > 0
  /\ DOMAIN trifields # {}

\* C4: a mesh whose texture is set has 'tcoords' in exactly one of the two
\* field tables.
C4_ExactlyOneTcoords ==
  texture # None =>
    (("tcoords" \in DOMAIN pointfields) # ("tcoords" \in DOMAIN trifields))

\* every point of the mesh is a corner of at least one triangle
AllPointsUsed(pts, tl) ==
  \A p \in DOMAIN pts : \E t \in DOMAIN tl : \E j \in 1..3 : tl[t][j] = p

KeepsAll(mask) == \A i \in DOMAIN mask : mask[i]

SameMesh ==
  /\ points' = points
  /\ trilist' = trilist
  /\ pointfields' = pointfields
  /\ trifields' = trifields

\* C5 as stated: extracting with a mask that retains every point yields a
\* mesh equal to the source (points, triangles, all fields).
C5_AllTrueIsIdentity ==
  [][(call'.op = "trimesh_from_pointmask" /\ call'.raised = None
        /\ KeepsAll(call'.pointmask)) => SameMesh]_vars

\* C5 amended: extracting with a mask that retains every point, from a mesh
\* in which every point is a corner of at least one triangle, yields a mesh
\* equal to the source (points, triangles, all fields).
C5_AllTrueIsIdentityWhenAllUsed ==
  [][(call'.op = "trimesh_from_pointmask" /\ call'.raised = None
        /\ KeepsAll(call'.pointmask) /\ AllPointsUsed(points, trilist))
       => SameMesh]_vars

\* reached: an all-true extraction of a mesh of three used points that
\* carries a point field and a triangle field
C5_Witness ==
  /\ Extracted
  /\ KeepsAll(call.pointmask)
  /\ n_points >= 3
  /\ Len0(call.pointmask) = n_points
  /\ AllPointsUsed(points, trilist)
  /\ DOMAIN pointfields # {}
  /\ DOMAIN trifields # {}

\* C6: retained points keep their original relative order, surviving
\* triangles keep their original order, and every corner of the k-th
\* surviving triangle addresses the same point as before:
\* new_points[new_trilist[k][j]] = points[kept_tris[k][j]].
C6_Step ==
  (call'.op = "trimesh_from_pointmask" /\ call'.raised = None) =>
    LET mask == call'.pointmask
        surv == SurvivingTris(trilist, mask)
        used == UsedPoints(trilist, mask)
    IN  /\ DOMAIN points' = 0..(Cardinality(used) - 1)
        /\ \A i \in DOMAIN points' : points'[i] = points[KthOf(used, i)]
        /\ DOMAIN trilist' = 0..(Cardinality(surv) - 1)
        /\ \A k \in DOMAIN trilist' : \A j \in 1..3 :
             /\ trilist'[k][j] \in DOMAIN points'
             /\ points'[trilist'[k][j]] = points[trilist[KthOf(surv, k)][j]]

C6_GeometryKept == [][C6_Step]_vars

\* reached: point 0 was dropped and a triangle survived, so every index of
\* the surviving triangle was renumbered
C6_Witness ==
  /\ Extracted
  /\ n_tris > 0
  /\ Len0(call.pointmask) > n_points
  /\ ~call.pointmask[0]

\* C7: the extracted mesh has exactly the field names of the source in each
\* table; a point field at new index i holds the source field's row at the
\* original index of that point, a triangle field at new index k holds the
\* source field's row at the original index of the k-th surviving triangle.
C7_Step ==
  (call'.op = "trimesh_from_pointmask" /\ call'.astype # "PolyMesh") =>
    LET mask == call'.pointmask
        surv == SurvivingTris(trilist, mask)
        used == UsedPoints(trilist, mask)
    IN  /\ call'.raised = None
        /\ DOMAIN pointfields' = DOMAIN pointfields
        /\ DOMAIN trifields' = DOMAIN trifields
        /\ \A m \in DOMAIN pointfields :
             /\ DOMAIN pointfields'[m].rows = 0..(Cardinality(used) - 1)
             /\ Tail(pointfields'[m].shape) = Tail(pointfields[m].shape)
             /\ \A i \in DOMAIN pointfields'[m].rows :
                  pointfields'[m].rows[i] = pointfields[m].rows[KthOf(used, i)]
        /\ \A m \in DOMAIN trifields :
             /\ DOMAIN trifields'[m].rows = 0..(Cardinality(surv) - 1)
             /\ Tail(trifields'[m].shape) = Tail(trifields[m].shape)
             /\ \A k \in DOMAIN trifields'[m].rows :
                  trifields'[m].rows[k] = trifields[m].rows[KthOf(surv, k)]

C7_FieldsGathered == [][C7_Step]_vars

\* reached: an extraction that dropped point 0 and triangle 0, from a mesh
\* with a point field and a triangle field 'color': row 0 of either field of
\* the result is the row the source held at index 1
C7_Witness ==
  /\ Extracted
  /\ Len0(call.pointmask) > n_points
  /\ ~call.pointmask[0]
  /\ n_tris > 0
  /\ DOMAIN pointfields # {}
  /\ DOMAIN trifields # {}
  /\ "color" \in DOMAIN pointfields
  /\ pointfields["color"].rows[0] = Row(<<3>>, 11)
  /\ "color" \in DOMAIN trifields
  /\ trifields["color"].rows[0] = Row(<<3>>, 11)

\* C8: attach_texture takes its cases in order: with an index (of one row per
\* triangle) the gathered coordinates become the triangle field 'tcoords';
\* else shape (N,2) becomes the point field 'tcoords'; else shape (T,3,2)
\* becomes the triangle field 'tcoords'; any other shape fails with the
\* texture-coordinate-shape error and stores no field in either table.
C8_Step ==
  call'.op = "attach_texture" =>
    LET tc == call'.tcoords
        ix == call'.tcoords_trilist
    IN  IF ix # NoArg
        THEN Len0(ix[1]) = n_tris =>
               /\ call'.raised = None
               /\ pointfields' = pointfields
               /\ "tcoords" \in DOMAIN trifields'
               /\ trifields'["tcoords"].shape = <<n_tris, 3, 2>>
               /\ \A k \in DOMAIN ix[1] : \A j \in 1..3 :
                    trifields'["tcoords"].rows[k][j] = tc.rows[ix[1][k][j]]
        ELSE IF tc.shape = <<n_points, 2>>
        THEN /\ call'.raised = None
             /\ trifields' = trifields
             /\ "tcoords" \in DOMAIN pointfields'
             /\ pointfields'["tcoords"] = tc
        ELSE IF tc.shape = <<n_tris, 3, 2>>
        THEN /\ call'.raised = None
             /\ pointfields' = pointfields
             /\ "tcoords" \in DOMAIN trifields'
             /\ trifields'["tcoords"] = tc
        ELSE /\ call'.raised = "TextureError"
             /\ pointfields' = pointfields
             /\ trifields' = trifields

C8_TexturePriority == [][C8_Step]_vars

(* ===================== properties of Transform.apply ==================== *)
\* C9: apply returns the transformed version of x in both branches: what x
\* produced from the closure when x exposes _transform, and _apply(x) when
\* it does not.
C9_ReturnsTransformed ==
  (tcall # NoArg /\ tcall[1].raised = None) =>
    IF HasTransform(tcall[1].x)
    THEN (tcall[1].x_returned # NoArg => tcall[1].ret = tcall[1].x_returned)
    ELSE tcall[1].ret = Some(_apply(tcall[1].x, tcall[1].kwargs))

\* C10: _apply is applied to x itself only when x does not expose
\* _transform; when it does, x._transform is invoked exactly once, with a
\* closure c such that c(a) = _apply(a, **kwargs), and _apply is never called
\* with x itself, whatever happens inside x._transform.
C10_NoDirectApplyOnTransformable ==
  (tcall # NoArg /\ HasTransform(tcall[1].x)) =>
    /\ tcall[1].transform_calls = 1
    /\ \A i \in DOMAIN tcall[1].apply_args : tcall[1].apply_args[i] # tcall[1].x

====
